---- MODULE Spec2Model ----
(***************************************************************************)
(* Model of Sensor.c / Sensor.h: the rolling-window statistics, the        *)
(* hysteresis presence flag, the blocked flag and the piecewise-linear     *)
(* distance lookup of the Vishay proximity / ambient-light sensor object.  *)
(*                                                                         *)
(* Number representations                                                  *)
(*   uint8_t, uint16_t  naturals below 2^8, 2^16.                          *)
(*   uint32_t sums,     a record [hi, lo] of two 16-bit halves, so that    *)
(*                      the arithmetic is modulo 2^32 as in C.             *)
(*   uint32_t count     sampleCount, the same record: it wraps at 2^32.    *)
(*   int                32 bits, as on the GNU host build: the conversion  *)
(*                      of a uint16_t keeps the value, the conversion of a *)
(*                      uint32_t from 2^31 on gives a negative int.        *)
(*   double (distance)  the exact rational [num, den] in lowest terms,     *)
(*                      den > 0; den = 0 stands for inf (num # 0) or NaN.  *)
(*                      The field before Init_Sensor holds what the        *)
(*                      storage held, any 64 bits: a Residue, of which the *)
(*                      model keeps the storage it came from, not the bits.*)
(*   double (std)       sqrt(num / den) kept as [num, den]: num is the     *)
(*                      sum of the squared scaled deviations, a natural    *)
(*                      of three limbs, den the product of the squared mean*)
(*                      divisor and the loop count. A double that is 0 is  *)
(*                      StdZero. The rounding of the double quotient       *)
(*                      sum / k never turns a non-zero deviation into 0    *)
(*                      (a non-integer quotient is at least 1/25 away from *)
(*                      every integer), so "== 0" is the same on both.     *)
(* C arrays are functions over 0 .. length-1.                              *)
(***************************************************************************)
EXTENDS Integers, Sequences, FiniteSets, TLC

VARIABLES sensor,   \* the Sensor struct
          psLog,    \* proximity samples passed to Update_Sensor since the last reset
          alsLog,   \* ambient samples passed to Update_Sensor since the last reset
          changes,  \* level changes of the sample stream since the last reset
          call,     \* the last stand-alone Distance_Lookup call and its result
          fresh,    \* a second Sensor struct, initialised when the first one is reset
          earlier   \* what the first struct had seen before its last reset: "none",
                    \* "filling" (at most PS_WINDOW updates) or "full" (more)

vars == <<sensor, psLog, alsLog, changes, call, fresh, earlier>>

----------------------------------------------------------------------------
(* Program constants                                                       *)

SENSOR_HIST_LEN == 50
PS_WINDOW == 25
ALS_WINDOW == 25
DIST_LOOKUP_LEN == 16

Arr(seq) == [i \in 0 .. (Len(seq) - 1) |-> seq[i + 1]]

distanceTable == Arr(<<0, 2, 4, 6, 8, 10, 12, 14, 16, 18, 20, 22, 24, 26, 28, 30>>)

----------------------------------------------------------------------------
(* Bounds of the model                                                     *)

MaxSamples == 78    \* Update_Sensor calls between two resets
MaxChanges == 2     \* level changes of the sample stream between two resets
MaxTableLen == 3    \* length of the generated lookup tables
MaxPairSamples == 27  \* Update_Sensor calls on the pair of sensors between two resets

----------------------------------------------------------------------------
(* Fixed-width integers                                                    *)

Two16 == 2 ^ 16
MaxU16 == Two16 - 1

Abs(x) == IF x < 0 THEN -x ELSE x

\* mutant: a negative argument saturates at 0
ToUint16Saturate(x) == IF x < 0 THEN 0 ELSE x % Two16

\* conversion of an integer to uint16_t
ToUint16(x) == x % Two16

U32Zero == [hi |-> 0, lo |-> 0]

\* a natural below 2^31 as a uint32_t
U32(n) == [hi |-> n \div Two16, lo |-> n % Two16]

\* uint32_t + d modulo 2^32, d an int
U32Add(u, d) ==
    LET t == u.lo + d
    IN  [hi |-> (u.hi + (t \div Two16)) % Two16, lo |-> t % Two16]

\* the value of a uint32_t below 2^31
U32Val(u) == u.hi * Two16 + u.lo

\* uint32_t < n, n an int in 0 .. 2^16
U32Less(u, n) == u.hi = 0 /\ u.lo < n

\* uint32_t % m, m an int in 1 .. 2^15
U32Mod(u, m) == ((u.hi % m) * (Two16 % m) + u.lo) % m

\* (int) of a uint32_t: the 32 bits read as a two's complement integer
ToInt(u) ==
    IF u.hi < Two16 \div 2 THEN u.hi * Two16 + u.lo ELSE (u.hi - Two16) * Two16 + u.lo

----------------------------------------------------------------------------
(* Doubles                                                                 *)

RECURSIVE GCD(_, _)
GCD(a, b) == IF b = 0 THEN a ELSE GCD(b, a % b)

Sign(n) == IF n > 0 THEN 1 ELSE IF n < 0 THEN -1 ELSE 0

\* the double n / d
Rat(n, d) ==
    IF d = 0 THEN [num |-> Sign(n), den |-> 0]
    ELSE LET g == GCD(Abs(n), Abs(d))
             s == IF d < 0 THEN -1 ELSE 1
         IN  [num |-> s * (n \div g), den |-> s * (d \div g)]

BigBase == 4096 * 4096
BigZero == [top |-> 0, hi |-> 0, lo |-> 0]

\* |x - sum| for a uint32_t sum and 0 <= x < 2^24, as a * BigBase + r with r < BigBase
Deviation(sum, x) ==
    LET top == sum.hi \div 256
        low == (sum.hi % 256) * Two16 + sum.lo
    IN  IF top = 0 THEN [a |-> 0, r |-> Abs(x - low)]
        ELSE IF low >= x THEN [a |-> top, r |-> low - x]
        ELSE [a |-> top - 1, r |-> low - x + BigBase]

\* errorSum: the sum of the squares of deviations d = a * 4096^2 + b * 4096 + c, kept
\* as the partial sums of the coefficients of 4096^0 .. 4096^4 of the squares
ErrZero == [p0 |-> 0, p1 |-> 0, p2 |-> 0, p3 |-> 0, p4 |-> 0]

ErrAdd(x, d) ==
    LET b == d.r \div 4096
        c == d.r % 4096
    IN  [p0 |-> x.p0 + c * c,
         p1 |-> x.p1 + 2 * b * c,
         p2 |-> x.p2 + b * b + 2 * d.a * c,
         p3 |-> x.p3 + 2 * d.a * b,
         p4 |-> x.p4 + d.a * d.a]

\* the value of an errorSum as the natural (top * BigBase + hi) * BigBase + lo
ErrValue(x) ==
    LET loRaw == x.p0 + (x.p1 % 4096) * 4096
        hiRaw == x.p2 + (x.p1 \div 4096) + (x.p3 % 4096) * 4096 + (loRaw \div BigBase)
    IN  [top |-> x.p4 + (x.p3 \div 4096) + (hiRaw \div BigBase),
         hi |-> hiRaw % BigBase,
         lo |-> loRaw % BigBase]

StdZero == [num |-> BigZero, den |-> 1]

\* sqrt(num / den)
Std(num, den) == IF num = BigZero /\ den # 0 THEN StdZero ELSE [num |-> num, den |-> den]

----------------------------------------------------------------------------
(* Distance_Lookup                                                         *)

\* mutant: the interpolation starts from the wrong table entry
RECURSIVE LookupScanWrongEntry(_, _, _, _, _)
LookupScanWrongEntry(i, psVal, proxTable, distTable, tableLen) ==
    IF i >= tableLen
    THEN Rat(distTable[tableLen - 1], 1)
    ELSE IF psVal >= proxTable[i]
         THEN IF i = 0
              THEN Rat(distTable[i], 1)
              ELSE LET dp == proxTable[i] - proxTable[i - 1]
                       dd == distTable[i] - distTable[i - 1]
                   IN  Rat(distTable[i - 1] * dp + (psVal - proxTable[i]) * dd, dp)
         ELSE LookupScanWrongEntry(i + 1, psVal, proxTable, distTable, tableLen)

RECURSIVE LookupScan(_, _, _, _, _)
LookupScan(i, psVal, proxTable, distTable, tableLen) ==
    IF i >= tableLen
    THEN Rat(distTable[tableLen - 1], 1)
    ELSE IF psVal >= proxTable[i]
         THEN IF i = 0
              THEN Rat(distTable[i], 1)
              ELSE LET dp == proxTable[i] - proxTable[i - 1]
                       dd == distTable[i] - distTable[i - 1]
                   IN  Rat(distTable[i - 1] * dp + (psVal - proxTable[i - 1]) * dd, dp)
         ELSE LookupScan(i + 1, psVal, proxTable, distTable, tableLen)

Distance_Lookup(psVal, proxTable, distTable, tableLen) ==
    LookupScan(0, psVal, proxTable, distTable, tableLen)

----------------------------------------------------------------------------
(* Init_Sensor, Reset_Sensor                                               *)

ZeroHist == [i \in 0 .. (SENSOR_HIST_LEN - 1) |-> 0]

\* mutant: the reset forgets the two window sums
Reset_SensorKeepsSums(s) ==
    [s EXCEPT !.sampleCount = U32Zero,
              !.psMean = 0,
              !.psSTD = StdZero,
              !.alsMean = 0,
              !.alsSTD = StdZero,
              !.inProximity = 0,
              !.isBlocked = 0,
              !.psHist = ZeroHist,
              !.alsHist = ZeroHist]

\* mutant: the reset also clears the estimated distance
Reset_SensorClearsDistance(s) ==
    [s EXCEPT !.sampleCount = U32Zero,
              !.psMean = 0,
              !.psSTD = StdZero,
              !.alsMean = 0,
              !.alsSTD = StdZero,
              !.estimatedDistance = Rat(0, 1),
              !.inProximity = 0,
              !.isBlocked = 0,
              !.psWindowSum = U32Zero,
              !.alsWindowSum = U32Zero,
              !.psHist = ZeroHist,
              !.alsHist = ZeroHist]

\* mutant: the reset also clears the thresholds
Reset_SensorClearsThresholds(s) ==
    [s EXCEPT !.sampleCount = U32Zero,
              !.psMean = 0,
              !.psSTD = StdZero,
              !.alsMean = 0,
              !.alsSTD = StdZero,
              !.psProxMin = 0,
              !.psProxMax = 0,
              !.inProximity = 0,
              !.isBlocked = 0,
              !.psWindowSum = U32Zero,
              !.alsWindowSum = U32Zero,
              !.psHist = ZeroHist,
              !.alsHist = ZeroHist]

\* mutant: the memsets clear SENSOR_HIST_LEN bytes, half of each history buffer
Reset_SensorHalfMemset(s) ==
    [s EXCEPT !.sampleCount = U32Zero,
              !.psMean = 0,
              !.psSTD = StdZero,
              !.alsMean = 0,
              !.alsSTD = StdZero,
              !.inProximity = 0,
              !.isBlocked = 0,
              !.psWindowSum = U32Zero,
              !.alsWindowSum = U32Zero,
              !.psHist = [i \in 0 .. (SENSOR_HIST_LEN - 1) |->
                            IF 2 * i < SENSOR_HIST_LEN THEN 0 ELSE s.psHist[i]],
              !.alsHist = [i \in 0 .. (SENSOR_HIST_LEN - 1) |->
                             IF 2 * i < SENSOR_HIST_LEN THEN 0 ELSE s.alsHist[i]]]

Reset_Sensor(s) ==
    [s EXCEPT !.sampleCount = U32Zero,
              !.psMean = 0,
              !.psSTD = StdZero,
              !.alsMean = 0,
              !.alsSTD = StdZero,
              !.inProximity = 0,
              !.isBlocked = 0,
              !.psWindowSum = U32Zero,
              !.alsWindowSum = U32Zero,
              !.psHist = ZeroHist,
              !.alsHist = ZeroHist]

Init_Sensor(s, index, psProxMin, psProxMax, proxTable) ==
    Reset_Sensor([s EXCEPT !.index = index,
                           !.psProxMin = psProxMin,
                           !.psProxMax = psProxMax,
                           !.proxTable = proxTable])

----------------------------------------------------------------------------
(* Update_Sensor                                                           *)

\* mutant: the evicted slot is off by one
WindowIndOffByOne(sampleCount, window) ==
    U32Mod(U32Add(sampleCount, 1 - window), SENSOR_HIST_LEN)

\* history slot of the sample that leaves a window of length window
WindowInd(sampleCount, window) == U32Mod(U32Add(sampleCount, -window), SENSOR_HIST_LEN)

\* mutant: the slot is reduced modulo the window length, not the history length
HistIndWindowModulus(sampleCount) == U32Mod(sampleCount, PS_WINDOW)

\* history slot the new sample is written to
HistInd(sampleCount) == U32Mod(sampleCount, SENSOR_HIST_LEN)

\* mutant: the sample leaving the window is never subtracted
PsWindowSumNoEvict(s, psVal) == U32Add(s.psWindowSum, psVal)

PsWindowSumUpdate(s, psVal) ==
    IF U32Less(s.sampleCount, PS_WINDOW)
    THEN U32Add(s.psWindowSum, psVal)
    ELSE U32Add(U32Add(s.psWindowSum, -s.psHist[WindowInd(s.sampleCount, PS_WINDOW)]), psVal)

AlsWindowSumUpdate(s, alsVal) ==
    IF U32Less(s.sampleCount, ALS_WINDOW)
    THEN U32Add(s.alsWindowSum, alsVal)
    ELSE U32Add(s.alsWindowSum, alsVal - s.alsHist[WindowInd(s.sampleCount, ALS_WINDOW)])

\* mutant: the divisor is the window length while the window is filling
PsMeanDivisorWindow(sampleCount) == PS_WINDOW

\* divisor of the proximity mean: sampleCount + 1 is 0 when sampleCount is 2^32 - 1
PsMeanDivisor(sampleCount) ==
    LET n == U32Add(sampleCount, 1)
    IN  IF ~U32Less(n, PS_WINDOW) THEN PS_WINDOW ELSE n.lo

\* divisor of the ambient mean
AlsMeanDivisor(sampleCount) ==
    IF ~U32Less(sampleCount, ALS_WINDOW - 1) THEN ALS_WINDOW ELSE U32Add(sampleCount, 1).lo

\* floor((double) sum / k) fits a uint16_t: the conversion is defined
CastDefined(sum, k) ==
    k # 0 /\ sum.hi \div k = 0 /\ ((sum.hi % k) * Two16 + sum.lo) \div k <= MaxU16

\* floor((double) sum / k) is below 2^31: it fits a 32-bit int; sum / 0 is inf or NaN
FitsInt(sum, k) == k # 0 /\ sum.hi \div k < Two16 \div 2

\* (uint16_t) floor((double) sum / k). A quotient above 65535, inf or NaN makes the
\* conversion undefined, and conv is what the build leaves: a conversion at run time
\* through a 32-bit int gives the low 16 bits of that int, which is the indefinite
\* integer 0x80000000 when the quotient does not fit ("indefinite"); a conversion at
\* run time through a wider integer gives the low 16 bits of the quotient ("wide");
\* a conversion the compiler evaluates gives the saturated 65535, and 0 for NaN
\* ("saturated")
MeanFloor(sum, k, conv) ==
    IF k = 0
    THEN IF conv = "saturated" /\ sum # U32Zero THEN MaxU16 ELSE 0
    ELSE LET low16 == ((sum.hi % k) * Two16 + sum.lo) \div k
         IN  IF CastDefined(sum, k) THEN low16
             ELSE IF conv = "saturated" THEN MaxU16
             ELSE IF conv = "wide" \/ FitsInt(sum, k) THEN low16
             ELSE 0

\* mutant: the loop never breaks, it visits the whole window while it is filling
StdDevNoBreak(hist, sampleCount, window, sum, k) ==
    LET n == ToInt(sampleCount)
        RECURSIVE Loop(_, _)
        Loop(i, errorSum) ==
           IF i < window
           THEN LET windowInd == (n - i) % SENSOR_HIST_LEN
                IN  Loop(i + 1, ErrAdd(errorSum, Deviation(sum, k * hist[windowInd])))
           ELSE [errorSum |-> errorSum, i |-> i]
        r == Loop(0, ErrZero)
    IN  Std(ErrValue(r.errorSum), k * k * r.i)

\* mutant: the loop breaks one sample early, before the first one on the first call
StdDevStrictBreak(hist, sampleCount, window, sum, k) ==
    LET n == ToInt(sampleCount)
        RECURSIVE Loop(_, _)
        Loop(i, errorSum) ==
           IF i < window /\ n - i > 0
           THEN LET windowInd == (n - i) % SENSOR_HIST_LEN
                IN  Loop(i + 1, ErrAdd(errorSum, Deviation(sum, k * hist[windowInd])))
           ELSE [errorSum |-> errorSum, i |-> i]
        r == Loop(0, ErrZero)
    IN  Std(ErrValue(r.errorSum), k * k * r.i)

\* the for loop over the window and sqrt(errorSum / i): the deviations from the
\* double sum / k are accumulated scaled by k, so errorSum is scaled by k * k
StdDev(hist, sampleCount, window, sum, k) ==
    LET n == ToInt(sampleCount)
        RECURSIVE Loop(_, _)
        Loop(i, errorSum) ==
           IF i < window /\ n - i >= 0
           THEN LET windowInd == (n - i) % SENSOR_HIST_LEN
                IN  Loop(i + 1, ErrAdd(errorSum, Deviation(sum, k * hist[windowInd])))
           ELSE [errorSum |-> errorSum, i |-> i]
        r == Loop(0, ErrZero)
    IN  Std(ErrValue(r.errorSum), k * k * r.i)

\* the window sums and the circular history buffers
UpdateWindows(s, psVal, alsVal) ==
    LET ind == HistInd(s.sampleCount)
    IN  [s EXCEPT !.psWindowSum = PsWindowSumUpdate(s, psVal),
                  !.alsWindowSum = AlsWindowSumUpdate(s, alsVal),
                  !.psHist = [s.psHist EXCEPT ![ind] = psVal],
                  !.alsHist = [s.alsHist EXCEPT ![ind] = alsVal]]

\* mutant: the distance is looked up before psMean is written, from the previous mean
UpdateStatisticsStaleMean(s, undef) ==
    LET psDiv == PsMeanDivisor(s.sampleCount)
        alsDiv == AlsMeanDivisor(s.sampleCount)
    IN  [s EXCEPT !.psMean = MeanFloor(s.psWindowSum, psDiv, undef.ps),
                  !.estimatedDistance =
                      Distance_Lookup(s.psMean, s.proxTable, distanceTable, DIST_LOOKUP_LEN),
                  !.psSTD = StdDev(s.psHist, s.sampleCount, PS_WINDOW, s.psWindowSum,
                                   psDiv),
                  !.alsMean = MeanFloor(s.alsWindowSum, alsDiv, undef.als),
                  !.alsSTD = StdDev(s.alsHist, s.sampleCount, ALS_WINDOW, s.alsWindowSum,
                                    alsDiv)]

\* the means, the estimated distance and the standard deviations
UpdateStatistics(s, undef) ==
    LET psDiv == PsMeanDivisor(s.sampleCount)
        alsDiv == AlsMeanDivisor(s.sampleCount)
        psMean == MeanFloor(s.psWindowSum, psDiv, undef.ps)
    IN  [s EXCEPT !.psMean = psMean,
                  !.estimatedDistance =
                      Distance_Lookup(psMean, s.proxTable, distanceTable, DIST_LOOKUP_LEN),
                  !.psSTD = StdDev(s.psHist, s.sampleCount, PS_WINDOW, s.psWindowSum,
                                   psDiv),
                  !.alsMean = MeanFloor(s.alsWindowSum, alsDiv, undef.als),
                  !.alsSTD = StdDev(s.alsHist, s.sampleCount, ALS_WINDOW, s.alsWindowSum,
                                    alsDiv)]

\* mutant: strict comparisons with the thresholds
InProximityStrict(s, psVal) ==
    IF s.inProximity # 0 /\ psVal < s.psProxMin THEN 0
    ELSE IF s.inProximity = 0 /\ psVal > s.psProxMax THEN 1
    ELSE s.inProximity

\* mutant: no hysteresis band, proximity is entered at the exit threshold
InProximityEnterAtMin(s, psVal) ==
    IF s.inProximity # 0 /\ psVal <= s.psProxMin THEN 0
    ELSE IF s.inProximity = 0 /\ psVal >= s.psProxMin THEN 1
    ELSE s.inProximity

\* mutant: the thresholds are compared with the window mean, not with the raw sample
InProximityByMean(s, psVal) ==
    IF s.inProximity # 0 /\ s.psMean <= s.psProxMin THEN 0
    ELSE IF s.inProximity = 0 /\ s.psMean >= s.psProxMax THEN 1
    ELSE s.inProximity

\* mutant: two separate ifs, the second one reads the flag the first one wrote
InProximityNoElse(s, psVal) ==
    LET exited == IF s.inProximity # 0 /\ psVal <= s.psProxMin THEN 0 ELSE s.inProximity
    IN  IF exited = 0 /\ psVal >= s.psProxMax THEN 1 ELSE exited

\* the inProximity flag
InProximityUpdate(s, psVal) ==
    IF s.inProximity # 0 /\ psVal <= s.psProxMin THEN 0
    ELSE IF s.inProximity = 0 /\ psVal >= s.psProxMax THEN 1
    ELSE s.inProximity

\* mutant: isBlocked is set on a zero ambient mean alone
IsBlockedIgnoresStd(s) ==
    IF s.isBlocked = 0 /\ s.inProximity # 0 /\ s.alsMean = 0 THEN 1
    ELSE IF s.isBlocked # 0 /\ s.inProximity = 0 THEN 0
    ELSE s.isBlocked

\* mutant: no latch, isBlocked is also cleared when ambient light comes back
IsBlockedFollowsAmbient(s) ==
    IF s.isBlocked = 0 /\ s.inProximity # 0 /\ s.alsMean = 0 /\ s.alsSTD = StdZero THEN 1
    ELSE IF s.isBlocked # 0 /\ (s.inProximity = 0 \/ s.alsMean # 0 \/ s.alsSTD # StdZero)
         THEN 0
    ELSE s.isBlocked

\* mutant: isBlocked is never cleared
IsBlockedNoClear(s) ==
    IF s.isBlocked = 0 /\ s.inProximity # 0 /\ s.alsMean = 0 /\ s.alsSTD = StdZero THEN 1
    ELSE s.isBlocked

\* the isBlocked flag, read after inProximity is written
IsBlockedUpdate(s) ==
    IF s.isBlocked = 0 /\ s.inProximity # 0 /\ s.alsMean = 0 /\ s.alsSTD = StdZero THEN 1
    ELSE IF s.isBlocked # 0 /\ s.inProximity = 0 THEN 0
    ELSE s.isBlocked

Update_Sensor(sensor0, psVal, alsVal, undef) ==
    LET s1 == UpdateStatistics(UpdateWindows(sensor0, psVal, alsVal), undef)
        s2 == [s1 EXCEPT !.inProximity = InProximityUpdate(s1, psVal)]
        s3 == [s2 EXCEPT !.isBlocked = IsBlockedUpdate(s2)]
    IN  [s3 EXCEPT !.sampleCount = U32Add(s3.sampleCount, 1)]

----------------------------------------------------------------------------
(* The callers: the configurations passed to Init_Sensor, the sample       *)
(* stream passed to Update_Sensor, the arguments of Distance_Lookup        *)

\* a calibration table in descending order
TableA == Arr(<<300, 200, 150, 120, 100, 80, 60, 50, 40, 30, 20, 15, 12, 8, 4, 2>>)

\* a calibration table that breaks the caller's contract: duplicates, not descending
TableB == Arr(<<300, 300, 150, 120, 100, 100, 60, 50, 40, 30, 20, 25, 12, 8, 8, 2>>)

Configs ==
    { [index |-> 0, psProxMin |-> 5, psProxMax |-> 10, proxTable |-> TableA],
      [index |-> 1, psProxMin |-> 12, psProxMax |-> 4, proxTable |-> TableB] }

\* what storage that was never written as a Sensor holds in the place of the
\* double: any 64 bits, different from run to run. No statement of Sensor.c reads
\* the field before an update overwrites it, it is only kept, so the model keeps of
\* such a value the storage it came from and not its bits: Residue(k) is the
\* content of storage k, whatever it is; two storages may hold different bits
Residue(k) == [storage |-> k]

\* values estimatedDistance may hold before Init_Sensor, which never writes it: 0.0
\* in zeroed storage, the distance a Sensor that lived in the same storage before
\* had computed (26.5, from psMean 7 and the first table), or any other bits
UninitDoubles == {Rat(0, 1), Rat(53, 2), Residue(1), Residue(2)}

\* the struct before Init_Sensor
Uninit(d) ==
    [index |-> 0, sampleCount |-> U32Zero, proxTable |-> TableA,
     psHist |-> ZeroHist, alsHist |-> ZeroHist,
     psMean |-> 0, psSTD |-> StdZero, alsMean |-> 0, alsSTD |-> StdZero,
     estimatedDistance |-> d, psProxMin |-> 0, psProxMax |-> 0,
     inProximity |-> 0, isBlocked |-> 0,
     psWindowSum |-> U32Zero, alsWindowSum |-> U32Zero]

\* the (psVal, alsVal) pairs of the sample stream
SamplePairs == {<<0, 50>>, <<12, 50>>, <<4, 50>>, <<7, 0>>, <<65535, 65535>>}

\* the pairs of the stream of a sensor: the second sensor sees a dim ambient
\* level, 1, where the first one sees 50
SamplePairsOf(index) ==
    IF index = 0 THEN SamplePairs ELSE (SamplePairs \ {<<4, 50>>}) \cup {<<4, 1>>}

\* the stream holds its level and may change it before these sample numbers
ChangePoints == {3, 6, 25, 75}

\* outcomes of the conversion of a quotient that does not fit a uint16_t, one for
\* the proximity mean and one for the ambient mean
Conversions == {"indefinite", "wide", "saturated"}
Undefined == [ps : Conversions, als : Conversions]
NoUndefined == [ps |-> "indefinite", als |-> "indefinite"]

UndefOutcomes(s, psVal, alsVal) ==
    IF /\ CastDefined(PsWindowSumUpdate(s, psVal), PsMeanDivisor(s.sampleCount))
       /\ CastDefined(AlsWindowSumUpdate(s, alsVal), AlsMeanDivisor(s.sampleCount))
    THEN {NoUndefined}
    ELSE Undefined

NextPairs ==
    IF psLog = <<>>
    THEN SamplePairsOf(sensor.index)
    ELSE LET last == <<psLog[Len(psLog)], alsLog[Len(alsLog)]>>
         IN  {last} \cup (IF changes < MaxChanges /\ Len(psLog) \in ChangePoints
                          THEN SamplePairsOf(sensor.index) \ {last}
                          ELSE {})

\* the tables of the stand-alone Distance_Lookup calls: every proxTable of 1 to
\* MaxTableLen entries over LookupValues (descending or not) and the toy table,
\* with the proxTable itself or the head of distanceTable as the distTable
LookupValues == {0, 10, 20, 30}
ToyTable == Arr(<<30, 20, 10, 0>>)

LookupProxTables ==
    {ToyTable} \cup UNION {[0 .. (n - 1) -> LookupValues] : n \in 1 .. MaxTableLen}

TableLen(t) == Cardinality(DOMAIN t)

LookupDistTables(proxTable) ==
    {proxTable, [i \in DOMAIN proxTable |-> distanceTable[i]]}

\* the values written as the psVal argument, before the conversion to uint16_t
LookupArgs == {-5, 0, 5, 15, 25, 30, 35}

LookupInputs ==
    UNION {{[arg |-> a, psVal |-> ToUint16(a), proxTable |-> p, distTable |-> d,
             tableLen |-> TableLen(p), done |-> FALSE, ret |-> Rat(0, 1)] :
               a \in LookupArgs, d \in LookupDistTables(p)} : p \in LookupProxTables}

NoCall == [arg |-> 0, psVal |-> 0, proxTable |-> ToyTable, distTable |-> ToyTable,
           tableLen |-> TableLen(ToyTable), done |-> FALSE, ret |-> Rat(0, 1)]

----------------------------------------------------------------------------
(* The sensor: Init_Sensor, then Update_Sensor and Reset_Sensor calls      *)

Init ==
    /\ \E c \in Configs, d \in UninitDoubles :
          /\ sensor = Init_Sensor(Uninit(d), c.index, c.psProxMin, c.psProxMax, c.proxTable)
          /\ fresh = Init_Sensor(Uninit(Rat(0, 1)), c.index, c.psProxMin, c.psProxMax,
                                 c.proxTable)
    /\ psLog = <<>>
    /\ alsLog = <<>>
    /\ changes = 0
    /\ call = NoCall
    /\ earlier = "none"

UpdateSensor ==
    /\ Len(psLog) < MaxSamples
    /\ \E p \in NextPairs :
          /\ \E undef \in UndefOutcomes(sensor, p[1], p[2]) :
                sensor' = Update_Sensor(sensor, p[1], p[2], undef)
          /\ psLog' = Append(psLog, p[1])
          /\ alsLog' = Append(alsLog, p[2])
          /\ changes' = IF psLog # <<>> /\ p # <<psLog[Len(psLog)], alsLog[Len(alsLog)]>>
                        THEN changes + 1
                        ELSE changes
    /\ UNCHANGED <<call, fresh, earlier>>

ResetSensor ==
    /\ sensor' = Reset_Sensor(sensor)
    /\ psLog' = <<>>
    /\ alsLog' = <<>>
    /\ changes' = 0
    /\ UNCHANGED <<call, fresh, earlier>>

Next == UpdateSensor \/ ResetSensor

Spec == Init /\ [][Next]_vars

----------------------------------------------------------------------------
(* Distance_Lookup on its own: a pure function of its arguments            *)

InitLookup ==
    /\ sensor = Init_Sensor(Uninit(Rat(0, 1)), 0, 5, 10, TableA)
    /\ psLog = <<>>
    /\ alsLog = <<>>
    /\ changes = 0
    /\ call \in LookupInputs
    /\ fresh = sensor
    /\ earlier = "none"

DistanceLookup ==
    /\ ~call.done
    /\ call' = [call EXCEPT !.done = TRUE,
                            !.ret = Distance_Lookup(call.psVal, call.proxTable,
                                                    call.distTable, call.tableLen)]
    /\ UNCHANGED <<sensor, psLog, alsLog, changes, fresh, earlier>>

NextLookupInputs ==
    /\ call.done
    /\ \E a \in LookupArgs :
          call' = [call EXCEPT !.arg = a, !.psVal = ToUint16(a), !.done = FALSE,
                               !.ret = Rat(0, 1)]
    /\ UNCHANGED <<sensor, psLog, alsLog, changes, fresh, earlier>>

NextLookup == DistanceLookup \/ NextLookupInputs

SpecLookup == InitLookup /\ [][NextLookup]_vars

----------------------------------------------------------------------------
(* Two sensors with the same configuration: the first one is reset with    *)
(* Reset_Sensor after some updates, the second one is initialised with     *)
(* Init_Sensor at that moment, and both are fed the same samples           *)

\* a third configuration, for the pair only: the two thresholds are equal
EqualThresholds == [index |-> 2, psProxMin |-> 7, psProxMax |-> 7, proxTable |-> TableA]

InitPair ==
    /\ \E c \in Configs \cup {EqualThresholds}, d1 \in UninitDoubles, d2 \in UninitDoubles :
          /\ sensor = Init_Sensor(Uninit(d1), c.index, c.psProxMin, c.psProxMax,
                                  c.proxTable)
          /\ fresh = Init_Sensor(Uninit(d2), c.index, c.psProxMin, c.psProxMax, c.proxTable)
    /\ psLog = <<>>
    /\ alsLog = <<>>
    /\ changes = 0
    /\ call = NoCall
    /\ earlier = "none"

UpdateBoth ==
    /\ Len(psLog) < MaxPairSamples
    /\ \E p \in NextPairs :
          /\ \E undef \in UndefOutcomes(sensor, p[1], p[2]) :
                sensor' = Update_Sensor(sensor, p[1], p[2], undef)
          /\ \E undef \in UndefOutcomes(fresh, p[1], p[2]) :
                fresh' = Update_Sensor(fresh, p[1], p[2], undef)
          /\ psLog' = Append(psLog, p[1])
          /\ alsLog' = Append(alsLog, p[2])
          /\ changes' = IF psLog # <<>> /\ p # <<psLog[Len(psLog)], alsLog[Len(alsLog)]>>
                        THEN changes + 1
                        ELSE changes
    /\ UNCHANGED <<call, earlier>>

ResetAndInit ==
    /\ sensor' = Reset_Sensor(sensor)
    /\ \E s \in {Uninit(d) : d \in UninitDoubles} \cup {fresh} :
          fresh' = Init_Sensor(s, sensor.index, sensor.psProxMin, sensor.psProxMax,
                               sensor.proxTable)
    /\ earlier' = IF sensor.sampleCount = U32Zero THEN "none"
                  ELSE IF U32Less(sensor.sampleCount, PS_WINDOW + 1) THEN "filling"
                  ELSE "full"
    /\ psLog' = <<>>
    /\ alsLog' = <<>>
    /\ changes' = 0
    /\ UNCHANGED call

NextPair == UpdateBoth \/ ResetAndInit

SpecPair == InitPair /\ [][NextPair]_vars

----------------------------------------------------------------------------
(* Long runs: the stream holds its level through very many Update_Sensor   *)
(* calls without a reset, up to the counts where the 32 bits of            *)
(* sampleCount show                                                        *)

\* the counts a long run stops at: two calls before (int) sampleCount turns
\* negative (2^31 - 2) and two calls before sampleCount + 1 wraps to 0 (2^32 - 2)
LongRunStops ==
    { [hi |-> (Two16 \div 2) - 1, lo |-> MaxU16 - 1], [hi |-> MaxU16, lo |-> MaxU16 - 1] }

\* uint32_t a < uint32_t b
U32Before(a, b) == a.hi < b.hi \/ (a.hi = b.hi /\ a.lo < b.lo)

\* an Update_Sensor call with this pair changes nothing but sampleCount, and every
\* slot of both histories already holds the pair: the window is full, the evicted
\* and the overwritten slot hold the sample that arrives, whatever their index is,
\* and both means fit a uint16_t, so that their conversions are defined
Steady(s, psVal, alsVal) ==
    /\ ~U32Less(s.sampleCount, SENSOR_HIST_LEN)
    /\ \A i \in 0 .. (SENSOR_HIST_LEN - 1) : s.psHist[i] = psVal /\ s.alsHist[i] = alsVal
    /\ UndefOutcomes(s, psVal, alsVal) = {NoUndefined}
    /\ Update_Sensor(s, psVal, alsVal, NoUndefined) =
          [s EXCEPT !.sampleCount = U32Add(s.sampleCount, 1)]

\* Update_Sensor called with the pair of a steady sensor again and again, until
\* sampleCount is at the next stop: every one of these calls reads sampleCount on
\* the same side of 2^31 and below 2^32 - 1, so each changes sampleCount only. The
\* stream has held one level since the last reset, and the logs do not record the
\* repeated samples
LongRun ==
    /\ psLog # <<>>
    /\ changes = 0
    /\ Steady(sensor, psLog[Len(psLog)], alsLog[Len(alsLog)])
    /\ \E stop \in LongRunStops :
          /\ U32Before(sensor.sampleCount, stop)
          /\ (ToInt(sensor.sampleCount) >= 0) = (ToInt(stop) >= 0)
          /\ sensor' = [sensor EXCEPT !.sampleCount = stop]
    /\ UNCHANGED <<psLog, alsLog, changes, call, fresh, earlier>>

NextLongRun == UpdateSensor \/ ResetSensor \/ LongRun

SpecLongRun == Init /\ [][NextLongRun]_vars

----------------------------------------------------------------------------
(* Reference values, computed from the logged samples                      *)

Min(a, b) == IF a < b THEN a ELSE b

\* the last Min(n, w) entries of log, n the number of logged samples
Window(log, w) == SubSeq(log, Len(log) - Min(Len(log), w) + 1, Len(log))

RECURSIVE SumFrom(_, _)
SumFrom(q, i) == IF i > Len(q) THEN 0 ELSE q[i] + SumFrom(q, i + 1)

SeqSum(q) == SumFrom(q, 1)

SeqMax(q) == CHOOSE m \in {q[i] : i \in DOMAIN q} : \A i \in DOMAIN q : q[i] <= m

IsConstant(q) == \A i \in DOMAIN q : q[i] = q[1]

RECURSIVE SquaredDeviations(_, _, _, _)
SquaredDeviations(q, i, k, total) ==
    IF i > Len(q) THEN ErrZero
    ELSE ErrAdd(SquaredDeviations(q, i + 1, k, total), [a |-> 0, r |-> Abs(k * q[i] - total)])

\* the standard deviation of a window of samples around its exact mean
RefStd(q) ==
    Std(ErrValue(SquaredDeviations(q, 1, Len(q), SeqSum(q))), Len(q) * Len(q) * Len(q))

\* a step of Update_Sensor and the raw proximity sample it was called with
IsUpdate == sensor'.sampleCount = U32Add(sensor.sampleCount, 1)
NewPsVal == psLog'[Len(psLog')]

----------------------------------------------------------------------------
(* Claims                                                                  *)

\* C1: after any sequence of updates since the last reset, psWindowSum is the exact
\* sum of the last min(sampleCount, PS_WINDOW) proximity samples and alsWindowSum the
\* exact sum of the last min(sampleCount, ALS_WINDOW) ambient samples.
C1_WindowSumsExact ==
    /\ sensor.sampleCount = U32(Len(psLog))
    /\ sensor.psWindowSum =
          U32(SeqSum(SubSeq(psLog, Len(psLog) - Min(U32Val(sensor.sampleCount), PS_WINDOW) + 1,
                            Len(psLog))))
    /\ sensor.alsWindowSum =
          U32(SeqSum(SubSeq(alsLog, Len(alsLog) - Min(U32Val(sensor.sampleCount), ALS_WINDOW) + 1,
                            Len(alsLog))))

\* C1 witness: the history buffer has wrapped, and the last update evicted from both
\* windows a sample that differs from the one it added.
C1_Witness ==
    /\ U32Val(sensor.sampleCount) > SENSOR_HIST_LEN + PS_WINDOW
    /\ psLog[Len(psLog)] # psLog[Len(psLog) - PS_WINDOW]
    /\ alsLog[Len(alsLog)] # alsLog[Len(alsLog) - ALS_WINDOW]
    /\ sensor.psWindowSum # U32Zero
    /\ sensor.alsWindowSum # U32Zero

\* C2: in every Update_Sensor call the new inProximity is 0 if the old one was 1 and
\* psVal <= psProxMin, 1 if the old one was 0 and psVal >= psProxMax, and the old
\* value otherwise, psVal being the raw sample of that call.
C2_HysteresisStep ==
    [][IsUpdate =>
          sensor'.inProximity =
             IF sensor.inProximity = 1 /\ NewPsVal <= sensor.psProxMin THEN 0
             ELSE IF sensor.inProximity = 0 /\ NewPsVal >= sensor.psProxMax THEN 1
             ELSE sensor.inProximity]_vars

\* C2 witness: an update left proximity on a raw sample equal to the exit threshold,
\* one call after a sample at or above the enter threshold.
C2_Witness ==
    /\ Len(psLog) >= 2
    /\ psLog[Len(psLog)] = sensor.psProxMin
    /\ psLog[Len(psLog) - 1] >= sensor.psProxMax
    /\ sensor.inProximity = 0

\* the flag after an update as a function of the four values the claim names: the
\* flag before, the raw sample and the two thresholds
FlagAfter(flag, psVal, psProxMin, psProxMax) ==
    CASE flag # 0 /\ psVal <= psProxMin -> 0
      [] flag = 0 /\ psVal >= psProxMax -> 1
      [] OTHER -> flag

\* C3: with psProxMin < psProxMax, an update whose raw sample lies strictly between
\* the two thresholds leaves inProximity as it was, whatever the history and the
\* window statistics are; and after every update, in the band or not, inProximity
\* is a function of the previous flag, the raw sample and the two thresholds only,
\* not of psMean, psSTD, the window sums or the history buffers.
C3_BandHolds ==
    [][IsUpdate =>
          /\ sensor'.inProximity =
                FlagAfter(sensor.inProximity, NewPsVal, sensor.psProxMin, sensor.psProxMax)
          /\ (/\ sensor.psProxMin < sensor.psProxMax
              /\ sensor.psProxMin < NewPsVal
              /\ NewPsVal < sensor.psProxMax)
             => sensor'.inProximity = sensor.inProximity]_vars

\* C3 witness: a raw sample inside the band left the sensor out of proximity while
\* the proximity mean of that update is at or above the enter threshold.
C3_Witness ==
    /\ Len(psLog) >= 1
    /\ sensor.psProxMin < sensor.psProxMax
    /\ sensor.psProxMin < psLog[Len(psLog)]
    /\ psLog[Len(psLog)] < sensor.psProxMax
    /\ sensor.psMean >= sensor.psProxMax
    /\ sensor.inProximity = 0

\* C3, outside the band: a raw sample at or below the exit threshold left the
\* sensor in proximity state 0 while the proximity mean and the whole window behind
\* it are at or above the enter threshold.
C3_OutOfBand ==
    /\ Len(psLog) > PS_WINDOW
    /\ sensor.psProxMin < sensor.psProxMax
    /\ psLog[Len(psLog)] <= sensor.psProxMin
    /\ sensor.psMean >= sensor.psProxMax
    /\ sensor.inProximity = 0

\* C4: between calls, isBlocked = 1 implies inProximity = 1; so an update that
\* leaves inProximity at 0 leaves isBlocked at 0.
C4_BlockedOnlyInProximity == sensor.isBlocked # 0 => sensor.inProximity # 0

\* C4 witness: the first update entered proximity with a zero ambient window, which
\* sets isBlocked; the second update left proximity, and isBlocked is 0 again.
C4_Witness ==
    /\ sensor.psProxMax = 4
    /\ sensor.psProxMin = 12
    /\ psLog = <<7, 7>>
    /\ alsLog = <<0, 0>>
    /\ sensor.inProximity = 0
    /\ sensor.isBlocked = 0

\* the end-to-end run of C5: thresholds 5 and 10, a prefix of the proximity sequence
\* 0,0,0,12,12,12,4,4,4, the ambient sample 50 each time
EndToEndPs == <<0, 0, 0, 12, 12, 12, 4, 4, 4>>

EndToEndRun ==
    /\ sensor.psProxMin = 5
    /\ sensor.psProxMax = 10
    /\ Len(psLog) >= 1
    /\ Len(psLog) <= Len(EndToEndPs)
    /\ psLog = SubSeq(EndToEndPs, 1, Len(psLog))
    /\ \A i \in DOMAIN alsLog : alsLog[i] = 50

\* C5 as stated: inProximity after the successive calls is F,F,F,T,T,T,T,T,F, the
\* sensor leaves proximity at sample index 8.
C5_Original ==
    EndToEndRun => sensor.inProximity = <<0, 0, 0, 1, 1, 1, 1, 1, 0>>[Len(psLog)]

\* C5 amended: inProximity after the successive calls is F,F,F,T,T,T,F,F,F, the
\* sensor enters proximity at sample index 3 and leaves it at sample index 6, the
\* first raw sample 4 <= 5.
C5_EndToEnd ==
    EndToEndRun => sensor.inProximity = <<0, 0, 0, 1, 1, 1, 0, 0, 0>>[Len(psLog)]

\* C5 witness: all nine samples were fed.
C5_Witness ==
    /\ EndToEndRun
    /\ psLog = EndToEndPs
    /\ sensor.sampleCount = U32(Len(EndToEndPs))
    /\ sensor.inProximity = 0

StrictlyDescending(t, len) == \A i \in 1 .. (len - 1) : t[i] < t[i - 1]

IsToyCall == call.proxTable = ToyTable /\ call.distTable = ToyTable

\* C6: for a strictly descending proxTable, Distance_Lookup is the piecewise-linear
\* reference: with i the first index such that psVal >= proxTable[i], distTable[0]
\* if i = 0, the interpolation between the entries i-1 and i if i > 0, and
\* distTable[tableLen-1] if there is no such index; on the toy tables
\* Distance_Lookup(25) = 25.0 and Distance_Lookup(35) = 30.0.
C6_LookupIsPiecewiseLinear ==
    (call.done /\ StrictlyDescending(call.proxTable, call.tableLen)) =>
       LET p == call.proxTable
           d == call.distTable
           hits == {i \in 0 .. (call.tableLen - 1) : call.psVal >= p[i]}
       IN  /\ IF hits = {}
              THEN call.ret = [num |-> d[call.tableLen - 1], den |-> 1]
              ELSE LET i == CHOOSE j \in hits : \A h \in hits : j <= h
                   IN  IF i = 0
                       THEN call.ret = [num |-> d[0], den |-> 1]
                       ELSE /\ call.ret.den > 0
                            /\ call.ret.num * (p[i] - p[i - 1]) =
                                  call.ret.den * (d[i - 1] * (p[i] - p[i - 1])
                                                  + (call.psVal - p[i - 1]) * (d[i] - d[i - 1]))
           /\ (IsToyCall /\ call.psVal = 25) => call.ret = [num |-> 25, den |-> 1]
           /\ (IsToyCall /\ call.psVal = 35) => call.ret = [num |-> 30, den |-> 1]

\* C6 witness: the toy tables, psVal 25, interpolated between the entries 0 and 1.
C6_Witness ==
    /\ call.done
    /\ IsToyCall
    /\ call.psVal = 25
    /\ call.ret = [num |-> 25, den |-> 1]

\* C7 as stated: on the toy tables a psVal argument below the lowest table entry,
\* such as -5, returns the last table distance 0.0.
C7_Original ==
    (call.done /\ IsToyCall /\ call.arg < call.proxTable[call.tableLen - 1]) =>
       call.ret = [num |-> call.distTable[call.tableLen - 1], den |-> 1]

\* C7 amended: Distance_Lookup returns the last table distance when the uint16_t
\* psVal is below every table entry; -5 written as the psVal argument is converted
\* to 65531, which is at or above proxTable[0], and on the toy tables the call
\* returns the first table distance 30.0.
C7_NegativeArgument ==
    /\ (call.done /\ \A i \in 0 .. (call.tableLen - 1) : call.psVal < call.proxTable[i])
          => call.ret = [num |-> call.distTable[call.tableLen - 1], den |-> 1]
    /\ (call.done /\ IsToyCall /\ call.arg = -5)
          => (call.psVal = 65531 /\ call.ret = [num |-> 30, den |-> 1])

\* C7 witness: the toy tables called with -5.
C7_Witness ==
    /\ call.done
    /\ IsToyCall
    /\ call.arg = -5
    /\ call.ret = [num |-> 30, den |-> 1]

\* C8: after every update psMean is floor(S / k), S the sum of the last k proximity
\* samples and k = min(n, PS_WINDOW), n the number of updates since the last reset;
\* likewise alsMean with ALS_WINDOW and the ambient samples.
C8_MeanIsFloor ==
    Len(psLog) >= 1 =>
       /\ sensor.psMean =
             SeqSum(Window(psLog, PS_WINDOW)) \div Min(Len(psLog), PS_WINDOW)
       /\ sensor.alsMean =
             SeqSum(Window(alsLog, ALS_WINDOW)) \div Min(Len(alsLog), ALS_WINDOW)

\* C8 witness: the window is still filling and the sum is no multiple of the
\* number of samples seen.
C8_Witness ==
    /\ Len(psLog) > 1
    /\ Len(psLog) < PS_WINDOW
    /\ SeqSum(psLog) % Len(psLog) # 0
    /\ sensor.psMean * Len(psLog) < SeqSum(psLog)
    /\ sensor.psMean * PS_WINDOW > SeqSum(psLog)

\* C9: after every update, 0 <= mean <= the largest sample of the channel's active
\* window, for both channels.
C9_MeanBounded ==
    Len(psLog) >= 1 =>
       /\ 0 <= sensor.psMean
       /\ sensor.psMean <= SeqMax(Window(psLog, PS_WINDOW))
       /\ 0 <= sensor.alsMean
       /\ sensor.alsMean <= SeqMax(Window(alsLog, ALS_WINDOW))

\* C9 witness: a larger sample has left the window, and the mean equals the largest
\* sample that is still in it.
C9_Witness ==
    /\ Len(psLog) > PS_WINDOW
    /\ SeqMax(psLog) > SeqMax(Window(psLog, PS_WINDOW))
    /\ sensor.psMean = SeqMax(Window(psLog, PS_WINDOW))
    /\ sensor.psMean > 0

\* C10: after every update, a channel whose active window holds identical samples
\* has a standard deviation of exactly 0; the loop visits the slots of the last
\* min(n, W) samples, so the deviation is the one of these samples.
C10_StdZeroOnConstantWindow ==
    Len(psLog) >= 1 =>
       /\ IsConstant(Window(psLog, PS_WINDOW)) => sensor.psSTD = StdZero
       /\ IsConstant(Window(alsLog, ALS_WINDOW)) => sensor.alsSTD = StdZero
       /\ sensor.psSTD = RefStd(Window(psLog, PS_WINDOW))
       /\ sensor.alsSTD = RefStd(Window(alsLog, ALS_WINDOW))

\* C10 witness: the window holds identical non-zero samples while the history slot
\* next to it still holds an older, different sample.
C10_Witness ==
    /\ Len(psLog) > PS_WINDOW
    /\ IsConstant(Window(psLog, PS_WINDOW))
    /\ psLog[Len(psLog) - PS_WINDOW] # psLog[Len(psLog)]
    /\ psLog[Len(psLog)] # 0
    /\ sensor.psSTD = StdZero

\* every statistic, both flags and every history slot are 0
Zeroed(s) ==
    /\ s.sampleCount = U32Zero
    /\ s.psWindowSum = U32Zero
    /\ s.alsWindowSum = U32Zero
    /\ s.psMean = 0
    /\ s.alsMean = 0
    /\ s.psSTD = StdZero
    /\ s.alsSTD = StdZero
    /\ s.inProximity = 0
    /\ s.isBlocked = 0
    /\ \A i \in 0 .. (SENSOR_HIST_LEN - 1) : s.psHist[i] = 0 /\ s.alsHist[i] = 0

\* C11: right after Reset_Sensor or Init_Sensor (no sample since), sampleCount, both
\* window sums, both means, both standard deviations, both flags and all
\* SENSOR_HIST_LEN slots of both histories are 0, and a second Reset_Sensor yields
\* the same state.
C11_ResetZeroes ==
    psLog = <<>> =>
       /\ Zeroed(sensor)
       /\ DOMAIN sensor.psHist = 0 .. (SENSOR_HIST_LEN - 1)
       /\ DOMAIN sensor.alsHist = 0 .. (SENSOR_HIST_LEN - 1)
       /\ Reset_Sensor(sensor) = sensor

\* C11 witness: a reset after updates: the state is zeroed while estimatedDistance
\* still holds 29, the distance of the mean 3 of the window 0, 0, 0, 12.
C11_Witness ==
    /\ psLog = <<>>
    /\ sensor.estimatedDistance = Rat(29, 1)
    /\ Zeroed(sensor)

\* the identity, the thresholds and the calibration table of a sensor
ConfigOf(s) ==
    [index |-> s.index, psProxMin |-> s.psProxMin, psProxMax |-> s.psProxMax,
     proxTable |-> s.proxTable]

\* C12: after Init_Sensor, index, psProxMin, psProxMax and the calibration table
\* (the reference and the 16 entries read through it) are the ones given to
\* Init_Sensor, and no Update_Sensor or Reset_Sensor call changes them.
C12_ConfigurationKept ==
    /\ [](ConfigOf(sensor) \in Configs)
    /\ [][ConfigOf(sensor') = ConfigOf(sensor)]_vars

\* C12 witness: the second configuration is intact after the history buffer has
\* wrapped and both flags have been set.
C12_Witness ==
    /\ ConfigOf(sensor) = [index |-> 1, psProxMin |-> 12, psProxMax |-> 4,
                           proxTable |-> TableB]
    /\ U32Val(sensor.sampleCount) > SENSOR_HIST_LEN
    /\ sensor.inProximity # 0
    /\ sensor.isBlocked # 0

\* C13: with psProxMin >= psProxMax (thresholds 12 and 4, and 7 and 7), every
\* update whose raw sample satisfies psProxMax <= psVal <= psProxMin flips
\* inProximity (0 to 1, 1 to 0), so a run of such samples from a reset gives
\* 1,0,1,0,...; the update completes like any other (sampleCount advances).
C13_BoundaryOscillates ==
    [][(/\ IsUpdate
        /\ sensor.psProxMin >= sensor.psProxMax
        /\ sensor.psProxMax <= NewPsVal
        /\ NewPsVal <= sensor.psProxMin)
       => /\ sensor.inProximity \in {0, 1}
          /\ sensor'.inProximity = 1 - sensor.inProximity
          /\ (\A i \in DOMAIN psLog' :
                 sensor.psProxMax <= psLog'[i] /\ psLog'[i] <= sensor.psProxMin)
             => sensor'.inProximity = Len(psLog') % 2]_vars

\* C13 witness: thresholds 12 and 4, six samples on the two thresholds themselves,
\* the flag went 1,0,1,0,1,0.
C13_Witness ==
    /\ sensor.psProxMin = 12
    /\ sensor.psProxMax = 4
    /\ psLog = <<12, 12, 12, 4, 4, 4>>
    /\ sensor.sampleCount = U32(6)
    /\ sensor.inProximity = 0

\* the table indices at which the scan of Distance_Lookup would stop
Hits(psVal, proxTable, tableLen) == {i \in 0 .. (tableLen - 1) : psVal >= proxTable[i]}

\* the sampleCount the last Update_Sensor call read
CountBefore == U32Add(sensor.sampleCount, -1)

\* C14 as amended: the divisions of Update_Sensor and Distance_Lookup are
\* floating-point divisions, none of them traps. After an update that read a
\* sampleCount below 2^31 (fewer than 2^31 updates since the reset before it) the
\* mean divisors of that call are >= 1 and the two standard deviations are
\* quotients by a loop count >= 1; after an update that read a sampleCount from
\* 2^31 on, both loops ended with i = 0 and both standard deviations are 0 / 0 (a
\* double with den = 0), the ambient mean divisor is ALS_WINDOW, and the proximity
\* mean divisor is PS_WINDOW but for sampleCount = 2^32 - 1, where it is 0. For
\* every sampleCount and for the descending table and the table with duplicates
\* and an out-of-order entry alike, the table entry at which the scan stopped
\* differs from the entry before it, so estimatedDistance is a finite quotient.
C14_NoZeroDivisorBelowHalf ==
    Len(psLog) >= 1 =>
       /\ ToInt(CountBefore) >= 0 =>
             /\ PsMeanDivisor(CountBefore) >= 1
             /\ AlsMeanDivisor(CountBefore) >= 1
             /\ sensor.psSTD.den >= 1
             /\ sensor.alsSTD.den >= 1
       /\ ToInt(CountBefore) < 0 =>
             /\ sensor.psSTD = Std(BigZero, 0)
             /\ sensor.alsSTD = Std(BigZero, 0)
             /\ AlsMeanDivisor(CountBefore) = ALS_WINDOW
             /\ PsMeanDivisor(CountBefore) =
                   IF CountBefore = [hi |-> MaxU16, lo |-> MaxU16] THEN 0 ELSE PS_WINDOW
       /\ sensor.estimatedDistance.den >= 1
       /\ LET hits == Hits(sensor.psMean, sensor.proxTable, DIST_LOOKUP_LEN)
          IN  \A i \in hits :
                 (i > 0 /\ \A h \in hits : i <= h)
                    => sensor.proxTable[i] # sensor.proxTable[i - 1]

\* C14 as stated: no division of Update_Sensor or Distance_Lookup has a zero
\* divisor, for any sample sequence: after every update the mean divisors of that
\* call are >= 1, the two standard deviations are quotients by a loop count >= 1
\* (a double with den = 0 is a quotient by 0), and the table entry at which the
\* scan stopped differs from the entry before it.
C14_Original ==
    Len(psLog) >= 1 =>
       /\ PsMeanDivisor(U32Add(sensor.sampleCount, -1)) >= 1
       /\ AlsMeanDivisor(U32Add(sensor.sampleCount, -1)) >= 1
       /\ sensor.psSTD.den >= 1
       /\ sensor.alsSTD.den >= 1
       /\ sensor.estimatedDistance.den >= 1
       /\ LET hits == Hits(sensor.psMean, sensor.proxTable, DIST_LOOKUP_LEN)
          IN  \A i \in hits :
                 (i > 0 /\ \A h \in hits : i <= h)
                    => sensor.proxTable[i] # sensor.proxTable[i - 1]

\* C14 witness: the first update of a sensor whose table has duplicates: the mean
\* divisor and the loop count are 1, the standard deviation is a quotient by 1 and
\* the distance is interpolated towards the entry after the duplicated 8.
C14_Witness ==
    /\ sensor.proxTable = TableB
    /\ psLog = <<7>>
    /\ sensor.sampleCount = U32(1)
    /\ PsMeanDivisor(U32Add(sensor.sampleCount, -1)) = 1
    /\ sensor.psSTD = StdZero
    /\ sensor.psMean = 7
    /\ sensor.proxTable[14] = sensor.proxTable[13]
    /\ sensor.estimatedDistance = [num |-> 85, den |-> 3]

\* C14, past 2^31 updates: the call that read sampleCount = 2^31 left both
\* standard deviations 0 / 0 although the window is full of equal samples.
C14_PastHalf ==
    /\ sensor.sampleCount = [hi |-> Two16 \div 2, lo |-> 1]
    /\ sensor.psSTD = Std(BigZero, 0)
    /\ sensor.alsSTD = Std(BigZero, 0)
    /\ sensor.psMean = 12
    /\ sensor.psWindowSum = U32(PS_WINDOW * 12)

\* C14, at the wrap: the call that read sampleCount = 2^32 - 1 divided the
\* proximity sum by sampleCount + 1 = 0 and left sampleCount = 0.
C14_AtWrap ==
    /\ psLog # <<>>
    /\ sensor.sampleCount = U32Zero
    /\ PsMeanDivisor(CountBefore) = 0
    /\ sensor.psWindowSum = U32(PS_WINDOW * 12)

AllZero(q) == \A i \in DOMAIN q : q[i] = 0

\* C15: in an update, isBlocked goes from 0 to 1 exactly when the inProximity
\* written by that call is 1 and the alsMean and alsSTD of that call are 0; alsMean
\* and alsSTD are both 0 exactly when every ambient sample of the active window
\* (the last min(n, ALS_WINDOW) ones, the current one included) is 0.
C15_BlockedSetOnDarkWindow ==
    [][IsUpdate =>
          LET dark == sensor'.alsMean = 0 /\ sensor'.alsSTD = StdZero
          IN  /\ (sensor.isBlocked = 0 /\ sensor'.isBlocked = 1)
                    <=> (sensor.isBlocked = 0 /\ sensor'.inProximity = 1 /\ dark)
              /\ dark <=> AllZero(Window(alsLog', ALS_WINDOW))]_vars

\* C15 witness: in proximity and not blocked although the ambient mean is 0: the
\* window holds a single kind of non-zero ambient sample, 1, next to zeros.
C15_Witness ==
    /\ Len(alsLog) >= 2
    /\ sensor.inProximity = 1
    /\ sensor.isBlocked = 0
    /\ sensor.alsMean = 0
    /\ sensor.alsSTD # StdZero
    /\ alsLog[Len(alsLog)] = 1
    /\ ~AllZero(Window(alsLog, ALS_WINDOW))

\* C15 second case: blocked is set by the very update that enters proximity.
C15_SetOnEntry ==
    /\ psLog = <<7>>
    /\ alsLog = <<0>>
    /\ sensor.inProximity = 1
    /\ sensor.isBlocked = 1

\* what slot k of a history holds after the samples of log, numbered from 0: the
\* most recent sample whose number is congruent to k modulo SENSOR_HIST_LEN
RefSlot(log, k) ==
    IF k >= Len(log) THEN 0
    ELSE log[k + SENSOR_HIST_LEN * ((Len(log) - 1 - k) \div SENSOR_HIST_LEN) + 1]

\* a step that fed one more sample
FedSample == Len(psLog') = Len(psLog) + 1

\* C16: every update writes psVal and alsVal into slot sampleCount mod
\* SENSOR_HIST_LEN of psHist and alsHist, leaves the other slots as they were,
\* uses slot numbers in 0 .. SENSOR_HIST_LEN - 1 only and adds exactly 1 to
\* sampleCount; so after n updates from a reset sampleCount = n and slot k holds
\* the most recent sample whose number is congruent to k modulo SENSOR_HIST_LEN,
\* 0 if there is none.
C16_HistoryWrites ==
    /\ [](/\ sensor.sampleCount = U32(Len(psLog))
          /\ DOMAIN sensor.psHist = 0 .. (SENSOR_HIST_LEN - 1)
          /\ DOMAIN sensor.alsHist = 0 .. (SENSOR_HIST_LEN - 1)
          /\ \A k \in 0 .. (SENSOR_HIST_LEN - 1) :
                /\ sensor.psHist[k] = RefSlot(psLog, k)
                /\ sensor.alsHist[k] = RefSlot(alsLog, k))
    /\ [][FedSample =>
            LET slot == U32Val(sensor.sampleCount) % SENSOR_HIST_LEN
            IN  /\ sensor'.sampleCount = U32(U32Val(sensor.sampleCount) + 1)
                /\ HistInd(sensor.sampleCount) = slot
                /\ slot \in DOMAIN sensor.psHist
                /\ U32Val(sensor.sampleCount) >= PS_WINDOW =>
                      WindowInd(sensor.sampleCount, PS_WINDOW) \in DOMAIN sensor.psHist
                /\ U32Val(sensor.sampleCount) >= ALS_WINDOW =>
                      WindowInd(sensor.sampleCount, ALS_WINDOW) \in DOMAIN sensor.alsHist
                /\ sensor'.psHist[slot] = NewPsVal
                /\ sensor'.alsHist[slot] = alsLog'[Len(alsLog')]
                /\ \A k \in 0 .. (SENSOR_HIST_LEN - 1) :
                      k # slot => /\ sensor'.psHist[k] = sensor.psHist[k]
                                  /\ sensor'.alsHist[k] = sensor.alsHist[k]]_vars

\* C16 witness: the buffer has wrapped: slot 0 holds sample number
\* SENSOR_HIST_LEN, which differs from sample number 0, and the slot the next
\* update will write still holds a sample of the previous lap.
C16_Witness ==
    /\ Len(psLog) > SENSOR_HIST_LEN + 1
    /\ sensor.sampleCount = U32(Len(psLog))
    /\ psLog[SENSOR_HIST_LEN + 1] # psLog[1]
    /\ sensor.psHist[0] = psLog[SENSOR_HIST_LEN + 1]
    /\ sensor.psHist[HistInd(sensor.sampleCount)] = psLog[Len(psLog) - SENSOR_HIST_LEN + 1]
    /\ sensor.psHist[HistInd(sensor.sampleCount)] # psLog[Len(psLog)]

\* d is the distance the table scan gives for psVal: the first distance at a stop
\* on entry 0, the interpolation between the entries i-1 and i at a stop on entry
\* i > 0, the last distance without a stop
IsLookupOf(d, psVal, proxTable, distTable, tableLen) ==
    LET hits == Hits(psVal, proxTable, tableLen)
    IN  IF hits = {}
        THEN d = [num |-> distTable[tableLen - 1], den |-> 1]
        ELSE LET i == CHOOSE j \in hits : \A h \in hits : j <= h
             IN  IF i = 0
                 THEN d = [num |-> distTable[0], den |-> 1]
                 ELSE /\ d.den > 0
                      /\ d = Rat(d.num, d.den)
                      /\ d.num * (proxTable[i] - proxTable[i - 1]) =
                            d.den * (distTable[i - 1] * (proxTable[i] - proxTable[i - 1])
                                     + (psVal - proxTable[i - 1])
                                       * (distTable[i] - distTable[i - 1]))

\* the psMean of the update before the last one
PreviousPsMean ==
    LET before == SubSeq(psLog, 1, Len(psLog) - 1)
    IN  SeqSum(Window(before, PS_WINDOW)) \div Min(Len(before), PS_WINDOW)

\* C17: after every update estimatedDistance is Distance_Lookup(psMean, proxTable,
\* distanceTable, DIST_LOOKUP_LEN) for the psMean written by that update, the
\* floored mean of the window.
C17_DistanceFromMean ==
    Len(psLog) >= 1 =>
       /\ sensor.psMean = SeqSum(Window(psLog, PS_WINDOW)) \div Min(Len(psLog), PS_WINDOW)
       /\ IsLookupOf(sensor.estimatedDistance, sensor.psMean, sensor.proxTable,
                     distanceTable, DIST_LOOKUP_LEN)
       /\ sensor.estimatedDistance =
             Distance_Lookup(sensor.psMean, sensor.proxTable, distanceTable, DIST_LOOKUP_LEN)

\* C17 witness: the distance is interpolated, and it is neither the distance of
\* the raw sample of the update nor the distance of the previous mean.
C17_Witness ==
    /\ Len(psLog) >= 2
    /\ sensor.estimatedDistance.den > 1
    /\ sensor.psMean # psLog[Len(psLog)]
    /\ sensor.psMean # PreviousPsMean
    /\ ~IsLookupOf(sensor.estimatedDistance, psLog[Len(psLog)], sensor.proxTable,
                   distanceTable, DIST_LOOKUP_LEN)
    /\ ~IsLookupOf(sensor.estimatedDistance, PreviousPsMean, sensor.proxTable,
                   distanceTable, DIST_LOOKUP_LEN)

\* C18: once isBlocked is 1 it is still 1 after every update that leaves
\* inProximity at 1, whatever the ambient samples are; it goes back to 0 only in
\* an update that leaves inProximity at 0, or in Reset_Sensor.
C18_BlockedLatches ==
    [][/\ (sensor.isBlocked = 1 /\ FedSample /\ sensor'.inProximity = 1)
          => sensor'.isBlocked = 1
       /\ (sensor.isBlocked = 1 /\ sensor'.isBlocked # 1)
          => \/ FedSample /\ sensor'.inProximity = 0 /\ sensor'.isBlocked = 0
             \/ psLog' = <<>> /\ sensor' = Reset_Sensor(sensor)]_vars

\* C18 witness: still blocked and in proximity after an update with a non-zero
\* ambient sample, with a non-zero ambient mean and standard deviation.
C18_Witness ==
    /\ Len(alsLog) >= 2
    /\ sensor.isBlocked = 1
    /\ sensor.inProximity = 1
    /\ alsLog[Len(alsLog)] # 0
    /\ sensor.alsMean > 0
    /\ sensor.alsSTD # StdZero

\* C19: Reset_Sensor leaves estimatedDistance as it was: after a reset the field
\* holds the distance of the last update before it, and after Init_Sensor the
\* value it held before, until the next update writes it.
C19_ResetKeepsDistance ==
    /\ sensor.estimatedDistance \in UninitDoubles
    /\ [][psLog' = <<>> => sensor'.estimatedDistance = sensor.estimatedDistance]_vars

\* C19 witness: a reset state whose estimatedDistance is still 85/3, the
\* interpolated distance an update with psMean 7 left, while psMean is back to 0.
C19_Witness ==
    /\ psLog = <<>>
    /\ sensor.sampleCount = U32Zero
    /\ sensor.psMean = 0
    /\ sensor.proxTable = TableB
    /\ sensor.estimatedDistance = [num |-> 85, den |-> 3]

\* the fields two sensors are compared on
Observed(s) ==
    [sampleCount |-> s.sampleCount, psHist |-> s.psHist, alsHist |-> s.alsHist,
     psWindowSum |-> s.psWindowSum, alsWindowSum |-> s.alsWindowSum,
     psMean |-> s.psMean, alsMean |-> s.alsMean, psSTD |-> s.psSTD, alsSTD |-> s.alsSTD,
     estimatedDistance |-> s.estimatedDistance, inProximity |-> s.inProximity,
     isBlocked |-> s.isBlocked]

\* C20: a sensor reset with Reset_Sensor after earlier updates and a sensor with
\* the same index, thresholds and table freshly initialised with Init_Sensor, fed
\* the same (psVal, alsVal) pairs, agree after every update on sampleCount, both
\* histories, both window sums, both means, both standard deviations,
\* estimatedDistance, inProximity and isBlocked; no update reaches an undefined
\* conversion, whose outcome would not be determined by the inputs.
C20_ResetErasesHistory ==
    /\ ConfigOf(fresh) = ConfigOf(sensor)
    /\ Len(psLog) >= 1 =>
          /\ CastDefined(sensor.psWindowSum, PsMeanDivisor(U32Add(sensor.sampleCount, -1)))
          /\ CastDefined(sensor.alsWindowSum, AlsMeanDivisor(U32Add(sensor.sampleCount, -1)))
          /\ Observed(sensor) = Observed(fresh)

\* C20 witness: the first sensor was reset after more than a full window of
\* updates; both sensors have since been fed more than a window of samples with a
\* level change, are in proximity and blocked, and agree.
C20_Witness ==
    /\ earlier = "full"
    /\ Len(psLog) > PS_WINDOW
    /\ changes >= 1
    /\ sensor.sampleCount = U32(Len(psLog))
    /\ sensor.inProximity = 1
    /\ sensor.isBlocked = 1
    /\ sensor.psWindowSum # U32Zero
    /\ Observed(sensor) = Observed(fresh)

\* C20, before the first update after the reset: the two sensors may still differ
\* on estimatedDistance, which Reset_Sensor does not write.
C20_DifferBeforeUpdate ==
    /\ earlier = "full"
    /\ psLog = <<>>
    /\ sensor.estimatedDistance # fresh.estimatedDistance

====
